------------------------------ MODULE Spec2Model ------------------------------
(***************************************************************************)
(* A model of the payman-mcp documentation server (src/src/index.ts): the  *)
(* document cache and fetchDocMarkdown, and the tool handlers built on it. *)
(* Text is modelled as a sequence of one-character strings, so that the    *)
(* substring, lower-casing and pattern operations of the handlers are      *)
(* computed rather than assumed.                                           *)
(***************************************************************************)
EXTENDS Integers, Sequences, FiniteSets, TLC

VARIABLES
  clock,          \* Date.now(), in milliseconds
  documentCache,  \* path -> None or [content, timestamp]
  calls,          \* the invocations of the tool under study and their fetches
  lastStored,     \* per path, the last successful retrieval stored (history)
  ticks,          \* how many times the clock has advanced
  tool            \* the tool handler state of the pure-function specifications

vars == <<clock, documentCache, calls, lastStored, ticks, tool>>

None == [none |-> TRUE]

-----------------------------------------------------------------------------
(* Strings: JavaScript's String operations on sequences of characters.     *)

\* The backquote character. It is the one character that cannot be written as a
\* TLA+ string of its own, so it is named.
Backtick == "<backquote>"

UpperChars == <<"A","B","C","D","E","F","G","H","I","J","K","L","M","N","O","P","Q","R","S","T","U","V","W","X","Y","Z">>
LowerChars == <<"a","b","c","d","e","f","g","h","i","j","k","l","m","n","o","p","q","r","s","t","u","v","w","x","y","z">>

\* the lower-case and upper-case forms of the letters
lowerOf == [c \in {UpperChars[i] : i \in 1..26} |->
              LowerChars[CHOOSE i \in 1..26 : UpperChars[i] = c]]

upperOf == [c \in {LowerChars[i] : i \in 1..26} |->
              UpperChars[CHOOSE i \in 1..26 : LowerChars[i] = c]]

lowerChar(c) == IF c \in DOMAIN lowerOf THEN lowerOf[c] ELSE c

upperChar(c) == IF c \in DOMAIN upperOf THEN upperOf[c] ELSE c

toLowerCase(s) == <<>> \o [i \in 1..Len(s) |-> lowerChar(s[i])]

toUpperCase(s) == <<>> \o [i \in 1..Len(s) |-> upperChar(s[i])]

\* t occurs in s at the 0-based offset i
matchesAt(s, t, i) ==
  /\ i >= 0
  /\ i + Len(t) <= Len(s)
  /\ \/ Len(t) = 0
     \/ /\ s[i + 1] = t[1]
        /\ SubSeq(s, i + 1, i + Len(t)) = t

Min(S) == CHOOSE x \in S : \A y \in S : x <= y

Max(S) == CHOOSE x \in S : \A y \in S : x >= y

\* String.prototype.indexOf: the 0-based offset of the first occurrence, or -1
indexOf(s, t) ==
  LET hits == {i \in 0..(Len(s) - Len(t)) : matchesAt(s, t, i)}
  IN  IF hits = {} THEN -1 ELSE Min(hits)

\* String.prototype.indexOf with a start position
indexOfFrom(s, t, from) ==
  LET hits == {i \in from..(Len(s) - Len(t)) : matchesAt(s, t, i)}
  IN  IF hits = {} THEN -1 ELSE Min(hits)

\* String.prototype.includes
includes(s, t) ==
  \/ Len(t) = 0
  \/ \E i \in 1..(Len(s) - Len(t) + 1) :
       s[i] = t[1] /\ SubSeq(s, i, i + Len(t) - 1) = t

startsWith(s, t) == matchesAt(s, t, 0)

\* String.prototype.substring(a, b): negative arguments count as 0, arguments
\* past the end as the length, and the two are swapped when a > b
substring(s, a, b) ==
  LET ca == IF a < 0 THEN 0 ELSE IF a > Len(s) THEN Len(s) ELSE a
      cb == IF b < 0 THEN 0 ELSE IF b > Len(s) THEN Len(s) ELSE b
      lo == IF ca <= cb THEN ca ELSE cb
      hi == IF ca <= cb THEN cb ELSE ca
  IN  SubSeq(s, lo + 1, hi)

-----------------------------------------------------------------------------
(* The topic registry.                                                     *)

docTopics ==
  <<"quickstart",
    "playground",
    "setup-and-installation",
    "create-payees",
    "send-payments",
    "create-payee",
    "search-payees",
    "check-balances",
    "bill-payment-agent",
    "api-reference",
    "api-keys",
    "error-handling">>

topicStr ==
     "quickstart" :> <<"q","u","i","c","k","s","t","a","r","t">>
  @@ "playground" :> <<"p","l","a","y","g","r","o","u","n","d">>
  @@ "setup-and-installation" :> <<"s","e","t","u","p","-","a","n","d","-","i","n","s","t","a","l","l","a","t","i","o","n">>
  @@ "create-payees" :> <<"c","r","e","a","t","e","-","p","a","y","e","e","s">>
  @@ "send-payments" :> <<"s","e","n","d","-","p","a","y","m","e","n","t","s">>
  @@ "create-payee" :> <<"c","r","e","a","t","e","-","p","a","y","e","e">>
  @@ "search-payees" :> <<"s","e","a","r","c","h","-","p","a","y","e","e","s">>
  @@ "check-balances" :> <<"c","h","e","c","k","-","b","a","l","a","n","c","e","s">>
  @@ "bill-payment-agent" :> <<"b","i","l","l","-","p","a","y","m","e","n","t","-","a","g","e","n","t">>
  @@ "api-reference" :> <<"a","p","i","-","r","e","f","e","r","e","n","c","e">>
  @@ "api-keys" :> <<"a","p","i","-","k","e","y","s">>
  @@ "error-handling" :> <<"e","r","r","o","r","-","h","a","n","d","l","i","n","g">>

\* topic -> path; a path is named by a string, and pathStr gives its characters
pathMap ==
     "quickstart" :> "/overview/quickstart"
  @@ "playground" :> "/overview/playground"
  @@ "setup-and-installation" :> "/sdks/setup-and-installation"
  @@ "create-payees" :> "/sdks/create-payees"
  @@ "send-payments" :> "/sdks/send-payments"
  @@ "create-payee" :> "/sdks/create-payee"
  @@ "search-payees" :> "/sdks/search-payees"
  @@ "check-balances" :> "/sdks/check-balances"
  @@ "bill-payment-agent" :> "/guides/bill-payment-agent"
  @@ "api-reference" :> "/api-reference/introduction"
  @@ "api-keys" :> "/api-reference/get-api-key"
  @@ "error-handling" :> "/api-reference/error-handling"

pathStr ==
     "/overview/quickstart" :> <<"/","o","v","e","r","v","i","e","w","/","q","u","i","c","k","s","t","a","r","t">>
  @@ "/overview/playground" :> <<"/","o","v","e","r","v","i","e","w","/","p","l","a","y","g","r","o","u","n","d">>
  @@ "/sdks/setup-and-installation" :> <<"/","s","d","k","s","/","s","e","t","u","p","-","a","n","d","-","i","n","s","t","a","l","l","a","t","i","o","n">>
  @@ "/sdks/create-payees" :> <<"/","s","d","k","s","/","c","r","e","a","t","e","-","p","a","y","e","e","s">>
  @@ "/sdks/send-payments" :> <<"/","s","d","k","s","/","s","e","n","d","-","p","a","y","m","e","n","t","s">>
  @@ "/sdks/create-payee" :> <<"/","s","d","k","s","/","c","r","e","a","t","e","-","p","a","y","e","e">>
  @@ "/sdks/search-payees" :> <<"/","s","d","k","s","/","s","e","a","r","c","h","-","p","a","y","e","e","s">>
  @@ "/sdks/check-balances" :> <<"/","s","d","k","s","/","c","h","e","c","k","-","b","a","l","a","n","c","e","s">>
  @@ "/guides/bill-payment-agent" :> <<"/","g","u","i","d","e","s","/","b","i","l","l","-","p","a","y","m","e","n","t","-","a","g","e","n","t">>
  @@ "/api-reference/introduction" :> <<"/","a","p","i","-","r","e","f","e","r","e","n","c","e","/","i","n","t","r","o","d","u","c","t","i","o","n">>
  @@ "/api-reference/get-api-key" :> <<"/","a","p","i","-","r","e","f","e","r","e","n","c","e","/","g","e","t","-","a","p","i","-","k","e","y">>
  @@ "/api-reference/error-handling" :> <<"/","a","p","i","-","r","e","f","e","r","e","n","c","e","/","e","r","r","o","r","-","h","a","n","d","l","i","n","g">>

topicTitle ==
     "quickstart" :> <<"Q","u","i","c","k","s","t","a","r","t"," ","G","u","i","d","e">>
  @@ "playground" :> <<"A","P","I"," ","P","l","a","y","g","r","o","u","n","d">>
  @@ "setup-and-installation" :> <<"S","e","t","u","p"," ","a","n","d"," ","I","n","s","t","a","l","l","a","t","i","o","n">>
  @@ "create-payees" :> <<"C","r","e","a","t","e"," ","P","a","y","e","e","s">>
  @@ "send-payments" :> <<"S","e","n","d"," ","P","a","y","m","e","n","t","s">>
  @@ "create-payee" :> <<"C","r","e","a","t","e"," ","P","a","y","e","e">>
  @@ "search-payees" :> <<"S","e","a","r","c","h"," ","P","a","y","e","e","s">>
  @@ "check-balances" :> <<"C","h","e","c","k"," ","B","a","l","a","n","c","e","s">>
  @@ "bill-payment-agent" :> <<"B","i","l","l"," ","P","a","y","m","e","n","t"," ","A","g","e","n","t">>
  @@ "api-reference" :> <<"A","P","I"," ","R","e","f","e","r","e","n","c","e">>
  @@ "api-keys" :> <<"A","P","I"," ","K","e","y","s">>
  @@ "error-handling" :> <<"E","r","r","o","r"," ","H","a","n","d","l","i","n","g">>

relatedTopics ==
     "quickstart" :> <<"setup-and-installation","api-keys">>
  @@ "playground" :> <<"api-reference","api-keys">>
  @@ "setup-and-installation" :> <<"api-keys","quickstart">>
  @@ "create-payees" :> <<"create-payee","search-payees">>
  @@ "send-payments" :> <<"check-balances","create-payees">>
  @@ "create-payee" :> <<"create-payees","search-payees">>
  @@ "search-payees" :> <<"create-payee","create-payees">>
  @@ "check-balances" :> <<"send-payments">>
  @@ "bill-payment-agent" :> <<"send-payments">>
  @@ "api-reference" :> <<"error-handling","api-keys">>
  @@ "api-keys" :> <<"api-reference","setup-and-installation">>
  @@ "error-handling" :> <<"api-reference">>


\* Object.entries(pathMap) / Object.entries(topicMetadata): the registry order
registryOrder == docTopics

-----------------------------------------------------------------------------
(* Bounds of the model.                                                    *)

MaxCalls == 2       \* get-documentation invocations in one behaviour
MaxTicks == 2       \* advances of the clock in one behaviour

CACHE_TTL == 3600000

\* The clock advances by a millisecond or by just under one TTL, so that the
\* ages TTL - 1, TTL and TTL + 1 of an entry all occur.
TickSteps == {1, CACHE_TTL - 1}

CallIds == 1..MaxCalls

\* the topics the get-documentation invocations of the model ask for
CallTopics == {"quickstart", "api-keys"}

Paths == {pathMap[t] : t \in DOMAIN pathMap}

-----------------------------------------------------------------------------
(* The remote site: what fetch(url) and response.text() can produce.       *)

\* The bodies the site serves; a document may change between two retrievals.
DocVersions ==
  { <<"#"," ","G","u","i","d","e","\n","v","1">>,
    <<"#"," ","G","u","i","d","e","\n","v","2">> }

HttpErrorStatuses == {404}

NetworkErrorMessages == { <<"E","C","O","N","N","R","E","S","E","T">> }

BodyErrorMessages == { <<"P","r","e","m","a","t","u","r","e"," ","c","l","o","s","e">> }

Digits == <<"0","1","2","3","4","5","6","7","8","9">>

\* String(n) of a non-negative integer, as the template literal formats it
RECURSIVE numberToString(_)
numberToString(n) ==
  IF n < 10 THEN <<Digits[n + 1]>>
  ELSE numberToString(n \div 10) \o <<Digits[(n % 10) + 1]>>

\* new Error(`Failed to fetch: ${response.status}`).message
statusErrorMessage(status) ==
  <<"F","a","i","l","e","d"," ","t","o"," ","f","e","t","c","h",":"," ">> \o numberToString(status)

\* the string the catch block returns
errorPlaceholder(path, message) ==
  <<"D","o","c","u","m","e","n","t","a","t","i","o","n"," ","c","o","n","t","e","n","t"," ","n","o","t"," ","a","v","a","i","l","a","b","l","e"," ","f","o","r"," ","p","a","t","h",":"," ">>
    \o pathStr[path] \o <<".","m","d","\n","E","r","r","o","r",":"," ">> \o message

\* `https://docs.paymanai.com${path}.md`
docUrl(path) ==
  <<"h","t","t","p","s",":","/","/","d","o","c","s",".","p","a","y","m","a","n","a","i",".","c","o","m">>
    \o pathStr[path] \o <<".","m","d">>

-----------------------------------------------------------------------------
(* The document cache and fetchDocMarkdown.                                *)

\* the freshness test of a lookup, with <= in place of <
cacheHitInclusive(cachedDoc, now) ==
  /\ cachedDoc # None
  /\ now - cachedDoc.timestamp <= CACHE_TTL

\* the freshness test of a lookup, with the TTL taken in seconds
cacheHitSeconds(cachedDoc, now) ==
  /\ cachedDoc # None
  /\ now - cachedDoc.timestamp < CACHE_TTL \div 1000

\* cachedDoc && now - cachedDoc.timestamp < CACHE_TTL
cacheHit(cachedDoc, now) ==
  /\ cachedDoc # None
  /\ now - cachedDoc.timestamp < CACHE_TTL

\* a store that keeps the entry it finds when that entry is younger
cacheSetKeepNewer(cache, path, content, now) ==
  IF cache[path] # None /\ cache[path].timestamp > now
    THEN cache
    ELSE [cache EXCEPT ![path] = [content |-> content, timestamp |-> now]]

\* documentCache.set(path, { content, timestamp: now })
cacheSet(cache, path, content, now) ==
  [cache EXCEPT ![path] = [content |-> content, timestamp |-> now]]

\* a catch block that stores the placeholder it returns
catchBlockCaching(cache, path, message, now) ==
  [cache |-> cacheSet(cache, path, errorPlaceholder(path, message), now),
   text  |-> errorPlaceholder(path, message)]

\* the catch block: the placeholder is returned and the cache is not touched
catchBlock(cache, path, message, now) ==
  [cache |-> cache,
   text  |-> errorPlaceholder(path, message)]

\* An activation of fetchDocMarkdown that has not been called yet.
NoCall ==
  [pc |-> "idle", topic |-> "", path |-> "", now |-> 0, seen |-> None,
   remote |-> FALSE, kind |-> "none", error |-> <<>>, result |-> <<>>]

\* Lines 19-31: the clock is read, the cache is looked up, and either the cached
\* content is returned or the request is sent and the activation awaits it.
\* seen, remote and kind record what the lookup found and did.
fetchDocMarkdownEnter(path, cache, time) ==
  LET now == time
      cachedDoc == cache[path]
  IN  IF cacheHit(cachedDoc, now)
        THEN [NoCall EXCEPT !.pc = "returned", !.path = path, !.now = now,
                            !.seen = cachedDoc, !.kind = "hit",
                            !.result = cachedDoc.content]
        ELSE [NoCall EXCEPT !.pc = "fetch", !.path = path, !.now = now,
                            !.seen = cachedDoc, !.remote = TRUE]

\* Lines 33-35 with response.ok: the activation goes on to await response.text()
fetchDocMarkdownOk(call) == [call EXCEPT !.pc = "text"]

\* Lines 37-40: the body has arrived; it is stored and returned
fetchDocMarkdownStore(call, cache, content) ==
  [cache |-> cacheSet(cache, call.path, content, call.now),
   call  |-> [call EXCEPT !.pc = "returned", !.kind = "fetched", !.result = content]]

\* Lines 41-46: fetch or text() rejected, or the status was not a success
fetchDocMarkdownCatch(call, cache, message) ==
  LET r == catchBlock(cache, call.path, message, call.now)
  IN  [cache |-> r.cache,
       call  |-> [call EXCEPT !.pc = "returned", !.kind = "failed",
                              !.error = message, !.result = r.text]]

-----------------------------------------------------------------------------
(* get-documentation.                                                      *)

RECURSIVE join(_, _)
\* Array.prototype.join
join(parts, sep) ==
  IF Len(parts) = 0 THEN <<>>
  ELSE IF Len(parts) = 1 THEN parts[1]
  ELSE parts[1] \o sep \o join(Tail(parts), sep)

\* `- ${topicMetadata[t].title} (use get-documentation with topic "${t}")`
relatedTopicLine(t) ==
  <<"-"," ">> \o topicTitle[t]
    \o <<" ","(","u","s","e"," ","g","e","t","-","d","o","c","u","m","e","n","t","a","t","i","o","n"," ","w","i","t","h"," ","t","o","p","i","c"," ","\"">>
    \o topicStr[t] \o <<"\"",")">>

relatedTopicsText(topic) ==
  IF Len(relatedTopics[topic]) > 0
    THEN <<"\n","\n","#","#"," ","R","e","l","a","t","e","d"," ","T","o","p","i","c","s","\n","\n">>
           \o join([i \in 1..Len(relatedTopics[topic]) |->
                      relatedTopicLine(relatedTopics[topic][i])], <<"\n">>)
    ELSE <<>>

\* the text of the handler's reply: docContent + relatedTopicsText
getDocumentationText(topic, docContent) == docContent \o relatedTopicsText(topic)

\* the handler resumes after fetchDocMarkdown has returned; what it replies is
\* getDocumentationText(call.topic, call.result)
getDocumentationReturn(call, topic) ==
  [call EXCEPT !.pc = "done", !.topic = topic]

\* the url a pending activation has requested
requestedUrl(call) == docUrl(call.path)

NoStore == [none |-> TRUE]

Init ==
  /\ clock = 0
  /\ documentCache = [p \in Paths |-> None]
  /\ calls = [c \in CallIds |-> NoCall]
  /\ lastStored = [p \in Paths |-> NoStore]
  /\ ticks = 0
  /\ tool = None

\* A host call of get-documentation(topic). Invocations are numbered in the
\* order in which they arrive.
GetDocumentation(c, topic) ==
  /\ calls[c].pc = "idle"
  /\ \A b \in CallIds : b < c => calls[b].pc # "idle"
  /\ LET e == [fetchDocMarkdownEnter(pathMap[topic], documentCache, clock)
                 EXCEPT !.topic = topic]
     IN  IF e.pc = "returned"
           THEN calls' = [calls EXCEPT ![c] = getDocumentationReturn(e, topic)]
           ELSE calls' = [calls EXCEPT ![c] = e]
  /\ UNCHANGED <<clock, documentCache, lastStored, ticks, tool>>

\* fetch(url) resolves with a success status
ResponseOk(c) ==
  /\ calls[c].pc = "fetch"
  /\ calls' = [calls EXCEPT ![c] = fetchDocMarkdownOk(calls[c])]
  /\ UNCHANGED <<clock, documentCache, lastStored, ticks, tool>>

\* fetch(url) resolves with a non-success status: line 34 throws
ResponseNotOk(c, status) ==
  /\ calls[c].pc = "fetch"
  /\ LET r == fetchDocMarkdownCatch(calls[c], documentCache, statusErrorMessage(status))
     IN  /\ documentCache' = r.cache
         /\ calls' = [calls EXCEPT ![c] =
                        getDocumentationReturn(r.call, calls[c].topic)]
  /\ UNCHANGED <<clock, lastStored, ticks, tool>>

\* fetch(url) rejects: a network failure
FetchRejects(c, message) ==
  /\ calls[c].pc = "fetch"
  /\ LET r == fetchDocMarkdownCatch(calls[c], documentCache, message)
     IN  /\ documentCache' = r.cache
         /\ calls' = [calls EXCEPT ![c] =
                        getDocumentationReturn(r.call, calls[c].topic)]
  /\ UNCHANGED <<clock, lastStored, ticks, tool>>

\* response.text() resolves with the body
BodyArrives(c, content) ==
  /\ calls[c].pc = "text"
  /\ LET r == fetchDocMarkdownStore(calls[c], documentCache, content)
     IN  /\ documentCache' = r.cache
         /\ calls' = [calls EXCEPT ![c] =
                        getDocumentationReturn(r.call, calls[c].topic)]
  /\ lastStored' = [lastStored EXCEPT ![calls[c].path] =
                      [content |-> content, now |-> calls[c].now, at |-> clock]]
  /\ UNCHANGED <<clock, ticks, tool>>

\* response.text() rejects
BodyRejects(c, message) ==
  /\ calls[c].pc = "text"
  /\ LET r == fetchDocMarkdownCatch(calls[c], documentCache, message)
     IN  /\ documentCache' = r.cache
         /\ calls' = [calls EXCEPT ![c] =
                        getDocumentationReturn(r.call, calls[c].topic)]
  /\ UNCHANGED <<clock, lastStored, ticks, tool>>

\* time passes
Tick(d) ==
  /\ ticks < MaxTicks
  /\ clock' = clock + d
  /\ ticks' = ticks + 1
  /\ UNCHANGED <<documentCache, calls, lastStored, tool>>

Next ==
  \/ \E c \in CallIds, topic \in CallTopics : GetDocumentation(c, topic)
  \/ \E c \in CallIds : ResponseOk(c)
  \/ \E c \in CallIds, status \in HttpErrorStatuses : ResponseNotOk(c, status)
  \/ \E c \in CallIds, m \in NetworkErrorMessages : FetchRejects(c, m)
  \/ \E c \in CallIds, content \in DocVersions : BodyArrives(c, content)
  \/ \E c \in CallIds, m \in BodyErrorMessages : BodyRejects(c, m)
  \/ \E d \in TickSteps : Tick(d)

Spec == Init /\ [][Next]_vars

-----------------------------------------------------------------------------
(* Properties of the cache and of fetchDocMarkdown.                        *)

\* what the get-documentation invocation c has replied
reply(c) == getDocumentationText(calls[c].topic, calls[c].result)

\* C1: a lookup returns the cached content, with no remote retrieval, exactly
\* when it finds an entry for the path whose age now - fetchedAt is under the
\* TTL of 3600 seconds; when the entry is missing or its age has reached the
\* TTL, a remote retrieval is issued, so an expired entry is never served.
C1_FreshLookup ==
  \A c \in CallIds :
    calls[c].pc # "idle" =>
      LET e == calls[c].seen
          fresh == e # None /\ calls[c].now - e.timestamp < 3600 * 1000
      IN  /\ fresh => /\ calls[c].kind = "hit"
                      /\ ~calls[c].remote
                      /\ calls[c].result = e.content
          /\ ~fresh => /\ calls[c].remote
                       /\ calls[c].kind # "hit"

\* a lookup has found an entry whose age is exactly the TTL, and has refetched
C1_Witness ==
  \E c \in CallIds :
    /\ calls[c].seen # None
    /\ calls[c].now - calls[c].seen.timestamp = 3600 * 1000
    /\ calls[c].remote

\* C2: a retrieval that ends in a network error or a non-success status makes
\* the call return a placeholder that embeds the path and the error message,
\* and the step leaves the cache as it was (no entry created, a stale entry
\* neither replaced nor refreshed); a later call that finds the cache as the
\* failed call found it issues a remote retrieval again.
C2_FailureLeavesCache ==
  [][ /\ \A c \in CallIds :
           (calls[c].pc \in {"fetch", "text"} /\ calls'[c].kind = "failed") =>
             /\ documentCache' = documentCache
             /\ calls'[c].pc = "done"
             /\ includes(calls'[c].result, pathStr[calls[c].path])
             /\ calls'[c].error # <<>>
             /\ includes(calls'[c].result, calls'[c].error)
      /\ \A d \in CallIds :
           (calls[d].pc = "idle" /\ calls'[d].pc # "idle") =>
             \A c \in CallIds :
               ( /\ calls[c].kind = "failed"
                 /\ calls[c].path = calls'[d].path
                 /\ documentCache[calls[c].path] = calls[c].seen ) =>
                 calls'[d].remote
    ]_vars

\* a call has failed on a path that holds a stale entry, and the entry is intact
C2_Witness ==
  \E c \in CallIds :
    /\ calls[c].kind = "failed"
    /\ calls[c].seen # None
    /\ documentCache[calls[c].path] = calls[c].seen

\* the entry the first of two calls has returned is still the last one stored
entryStands(c) ==
  LET s == lastStored[calls[c].path]
  IN  /\ s # NoStore
      /\ documentCache[calls[c].path] # None
      /\ s.content = calls[c].result
      /\ s.now = documentCache[calls[c].path].timestamp
      /\ IF calls[c].kind = "hit"
           THEN s.now = calls[c].seen.timestamp
           ELSE s.now = calls[c].now

\* C3, as amended: when a get-documentation call has returned the document
\* (from the cache or from a successful retrieval), a later call for the same
\* topic that starts before any other retrieval has overwritten the entry and
\* less than one TTL after the entry's timestamp returns byte-identical
\* content, served from the cache with no remote retrieval.
C3_RepeatWithinTtl ==
  [][ \A d \in CallIds :
        (calls[d].pc = "idle" /\ calls'[d].pc # "idle") =>
          \A c \in CallIds :
            ( /\ calls[c].pc = "done"
              /\ calls[c].topic = calls'[d].topic
              /\ calls[c].kind \in {"hit", "fetched"}
              /\ entryStands(c)
              /\ clock - lastStored[calls[c].path].now < 3600 * 1000 ) =>
              /\ calls'[d].pc = "done"
              /\ calls'[d].kind = "hit"
              /\ ~calls'[d].remote
              /\ getDocumentationText(calls'[d].topic, calls'[d].result) = reply(c)
    ]_vars

\* a second call for a topic has been served from the cache what the first fetched,
\* at the last millisecond of the entry's TTL
C3_Witness ==
  \E c, d \in CallIds :
    /\ c < d
    /\ calls[c].kind = "fetched"
    /\ calls[d].kind = "hit"
    /\ calls[d].topic = calls[c].topic
    /\ calls[d].now - calls[c].now = 3600 * 1000 - 1
    /\ reply(d) = reply(c)

\* C3 as stated: any two calls for a topic made within one TTL window return
\* identical content and the second issues no remote retrieval.
C3_AnyTwoCallsIdentical ==
  \A c, d \in CallIds :
    ( /\ c < d
      /\ calls[c].pc = "done"
      /\ calls[d].pc = "done"
      /\ calls[c].topic = calls[d].topic
      /\ calls[d].now - calls[c].now < 3600 * 1000 ) =>
      /\ reply(d) = reply(c)
      /\ ~calls[d].remote

\* C4: under any interleaving, an entry of the cache holds the complete body of
\* one successful retrieval of its path with the timestamp of that same
\* retrieval, and it is the one stored last.
C4_EntryIsOneRetrieval ==
  \A p \in Paths :
    /\ documentCache[p] = None <=> lastStored[p] = NoStore
    /\ documentCache[p] # None =>
         /\ documentCache[p].content = lastStored[p].content
         /\ documentCache[p].timestamp = lastStored[p].now
         /\ \E c \in CallIds :
              /\ calls[c].kind = "fetched"
              /\ calls[c].path = p
              /\ calls[c].result = documentCache[p].content
              /\ calls[c].now = documentCache[p].timestamp

\* two calls have missed the same path, both have retrieved it, with different
\* bodies, and the one that started first has stored last
C4_Witness ==
  \E c, d \in CallIds :
    /\ c < d
    /\ calls[c].kind = "fetched"
    /\ calls[d].kind = "fetched"
    /\ calls[c].path = calls[d].path
    /\ calls[c].seen = calls[d].seen
    /\ calls[c].result # calls[d].result
    /\ calls[c].now < calls[d].now
    /\ documentCache[calls[c].path].content = calls[c].result

\* C10: the timestamp an entry records is the clock value at the moment the
\* entry was written.
C10_TimestampIsWriteTime ==
  \A p \in Paths :
    documentCache[p] # None => documentCache[p].timestamp = lastStored[p].at

-----------------------------------------------------------------------------
(* search-documentation.                                                   *)

NumDocs == 3        \* registry entries the search (and its suggestions) covers

ExcerptRadius == 150

FallbackLength == 200

\* Object.entries(pathMap), cut to the entries the model covers
docsToSearch == SubSeq(registryOrder, 1, NumDocs)

DocIds == 1..NumDocs

\* the characters \s matches that occur in the documents of the model
isWhitespace(c) == c \in {" ", "\t", "\n", "\r"}

RECURSIVE hashRun(_, _)
\* #+ at the 0-based offset i: how many '#' follow
hashRun(s, i) ==
  IF i < Len(s) /\ s[i + 1] = "#" THEN 1 + hashRun(s, i + 1) ELSE 0

RECURSIVE spaceRun(_, _)
\* \s+ at the 0-based offset i: how many whitespace characters follow
spaceRun(s, i) ==
  IF i < Len(s) /\ isWhitespace(s[i + 1]) THEN 1 + spaceRun(s, i + 1) ELSE 0

\* ^ under the m flag: the start of the text or just after a line terminator
lineStartAt(s, i) == i = 0 \/ s[i] \in {"\n", "\r"}

\* the length of the match of /^#+\s+/m at offset i, 0 when there is none
headingMarkerLength(s, i) ==
  IF lineStartAt(s, i) /\ hashRun(s, i) > 0 /\ spaceRun(s, i + hashRun(s, i)) > 0
    THEN hashRun(s, i) + spaceRun(s, i + hashRun(s, i))
    ELSE 0

RECURSIVE splitHeadingsFrom(_, _)
\* String.prototype.split with /^#+\s+/m: p is where the current piece begins;
\* the piece ends at the next offset at which the pattern matches
splitHeadingsFrom(s, p) ==
  LET found == {q \in p..(Len(s) - 1) : headingMarkerLength(s, q) > 0}
  IN  IF found = {} THEN <<substring(s, p, Len(s))>>
      ELSE <<substring(s, p, Min(found))>>
             \o splitHeadingsFrom(s, Min(found) + headingMarkerLength(s, Min(found)))

\* content.split(/^#+\s+/m)
splitHeadings(s) == splitHeadingsFrom(s, 0)

RECURSIVE splitLinesFrom(_, _)
splitLinesFrom(s, p) ==
  LET q == indexOfFrom(s, <<"\n">>, p)
  IN  IF q = -1 THEN <<substring(s, p, Len(s))>>
      ELSE <<substring(s, p, q)>> \o splitLinesFrom(s, q + 1)

\* s.split("\n")
splitLines(s) == splitLinesFrom(s, 0)

\* s.replace(/\n+/g, " "): the first newline of a run becomes a space and the
\* rest of the run goes
collapseNewlines(s) ==
  LET kept == SelectSeq([i \in 1..Len(s) |-> i],
                        LAMBDA i : s[i] # "\n" \/ i = 1 \/ s[i - 1] # "\n")
  IN  [k \in 1..Len(kept) |-> IF s[kept[k]] = "\n" THEN " " ELSE s[kept[k]]]

Ellipsis == <<".", ".", ".">>

\* lines 197-217: the heading and the excerpt of the section that holds the query
sectionMatch(section, queryLower) ==
  LET lines == splitLines(section)
      sectionTitle == lines[1]
      sectionContent == join(Tail(lines), <<"\n">>)
      index == indexOf(toLowerCase(sectionContent), queryLower)
      start == Max({0, index - ExcerptRadius})
      end == Min({Len(sectionContent), index + Len(queryLower) + ExcerptRadius})
      excerpt == (IF start > 0 THEN Ellipsis ELSE <<>>)
                   \o collapseNewlines(substring(sectionContent, start, end))
                   \o (IF end < Len(sectionContent) THEN Ellipsis ELSE <<>>)
  IN  [section |-> sectionTitle, excerpt |-> excerpt]

\* the test of line 190, on the text as it is, without lower-casing
contentMatchesExact(content, query) == includes(content, query)

\* content.toLowerCase().includes(queryLower)
contentMatches(content, query) ==
  includes(toLowerCase(content), toLowerCase(query))

NoMatch == [null |-> TRUE]

\* lines 187-229: what one document contributes to the search
searchDoc(topic, content, query) ==
  LET queryLower == toLowerCase(query)
      sections == splitHeadings(content)
      holds == {k \in 1..Len(sections) : includes(toLowerCase(sections[k]), queryLower)}
      best == IF holds = {}
                THEN [section |-> <<>>, excerpt |-> <<>>]
                ELSE sectionMatch(sections[Min(holds)], queryLower)
  IN  IF contentMatches(content, query)
        THEN [title |-> topicTitle[topic],
              topic |-> topic,
              section |-> best.section,
              excerpt |-> IF best.excerpt # <<>>
                            THEN best.excerpt
                            ELSE substring(content, 0, FallbackLength) \o Ellipsis]
        ELSE NoMatch

Pending == [pending |-> TRUE]

\* a settled promise puts its value in the first slot that is still empty
promiseAllFirstFree(values, i, value) ==
  [values EXCEPT ![Min({k \in 1..Len(values) : values[k] = Pending})] = value]

\* Promise.all: the value of the i-th promise is the i-th element of the result
promiseAllSettle(values, i, value) == [values EXCEPT ![i] = value]

\* Array.prototype.filter(Boolean): the elements that are not null, in order
filterBoolean(values) == SelectSeq(values, LAMBDA v : v # NoMatch)

suggestionsFrom(topics, queryLower) ==
  SelectSeq(topics,
            LAMBDA t : \/ includes(topicStr[t], queryLower)
                       \/ includes(toLowerCase(topicTitle[t]), queryLower))

\* lines 237-246
possibleTopics(query) == suggestionsFrom(docsToSearch, toLowerCase(query))

\* lines 232-288: what the handler replies once every promise has settled
searchReply(values, query) ==
  LET searchResults == filterBoolean(values)
  IN  IF Len(searchResults) = 0
        THEN [kind |-> "none", results |-> <<>>, suggestions |-> possibleTopics(query)]
        ELSE [kind |-> "results", results |-> searchResults, suggestions |-> <<>>]

\* line 276: one result as it is rendered
formatResult(r) ==
  <<"#","#"," ">> \o r.title \o <<"\n","\n">>
    \o (IF r.section # <<>> THEN <<"#","#","#"," ">> \o r.section \o <<"\n","\n">> ELSE <<>>)
    \o r.excerpt
    \o <<"\n","\n","*","F","o","r"," ","f","u","l","l"," ","d","o","c","u","m","e","n","t","a","t","i","o","n",","," ","u","s","e"," ","t","h","e"," ","g","e","t","-","d","o","c","u","m","e","n","t","a","t","i","o","n"," ","t","o","o","l"," ","w","i","t","h"," ","t","o","p","i","c"," ","\"">>
    \o topicStr[r.topic] \o <<"\"",".","*">>

\* `- ${s.title} (use get-documentation with topic "${s.topic}")`
suggestionLine(t) == relatedTopicLine(t)

\* the text of the reply
searchReplyText(rep, query) ==
  IF rep.kind = "results"
    THEN <<"#"," ","S","e","a","r","c","h"," ","R","e","s","u","l","t","s"," ","f","o","r"," ","\"">> \o query \o <<"\"","\n","\n">>
           \o join([k \in 1..Len(rep.results) |-> formatResult(rep.results[k])],
                   <<"\n","\n","-","-","-","\n","\n">>)
    ELSE <<"N","o"," ","r","e","s","u","l","t","s"," ","f","o","u","n","d"," ","f","o","r"," ","\"">> \o query
           \o <<"\"","."," ","T","r","y"," ","a"," ","d","i","f","f","e","r","e","n","t"," ","s","e","a","r","c","h"," ","t","e","r","m",".">>
           \o (IF Len(rep.suggestions) > 0
                 THEN <<"\n","\n","Y","o","u"," ","m","i","g","h","t"," ","b","e"," ","i","n","t","e","r","e","s","t","e","d"," ","i","n"," ","t","h","e","s","e"," ","t","o","p","i","c","s",":","\n","\n">>
                        \o join([k \in 1..Len(rep.suggestions) |->
                                   suggestionLine(rep.suggestions[k])], <<"\n">>)
                 ELSE <<>>)

\* The bodies the site serves to the search, and the queries the host sends.
SearchBodies ==
  { <<"#"," ","S","e","n","d","\n","P","a","y"," ","t","h","e"," ","p","a","y","e","e">>,
    <<"I","n","t","r","o","\n","#","#"," ","K","e","y","s","\n","A","P","I"," ","k","e","y">> }

SearchQueries ==
  { <<"P","A","Y">>, <<"k","e","y">>, <<"z","z">>, <<"e","r","r","o","r">> }

IdleSearch ==
  [pc |-> "idle", query |-> <<>>, values |-> <<>>, firstSettled |-> 0,
   reply |-> None]

InitSearch ==
  /\ clock = 0
  /\ documentCache = [p \in Paths |-> None]
  /\ calls = [i \in DocIds |-> NoCall]
  /\ lastStored = [p \in Paths |-> NoStore]
  /\ ticks = 0
  /\ tool = IdleSearch

RECURSIVE settleReturned(_, _, _, _)
\* the activations that returned from the cache settle first, in array order
settleReturned(values, entered, query, i) ==
  IF i > Len(entered) THEN values
  ELSE IF entered[i].pc = "returned"
    THEN settleReturned(
           promiseAllSettle(values, i,
                            searchDoc(entered[i].topic, entered[i].result, query)),
           entered, query, i + 1)
  ELSE settleReturned(values, entered, query, i + 1)

\* A host call of search-documentation(query): lines 180-187 start one
\* fetchDocMarkdown per registry entry before any of them is awaited.
SearchDocumentation(query) ==
  /\ tool.pc \in {"idle", "done"}
  /\ LET entered == [i \in DocIds |->
                       [fetchDocMarkdownEnter(pathMap[docsToSearch[i]],
                                              documentCache, clock)
                          EXCEPT !.topic = docsToSearch[i]]]
     IN  /\ calls' = entered
         /\ tool' = [pc |-> "awaiting", query |-> query,
                     values |-> settleReturned([i \in DocIds |-> Pending],
                                               entered, query, 1),
                     firstSettled |-> 0, reply |-> None]
  /\ UNCHANGED <<clock, documentCache, lastStored, ticks>>

\* the continuation of lines 188-229 for document i, whose fetch has returned
searchSettled(i, call) ==
  [tool EXCEPT !.values = promiseAllSettle(@, i,
                            searchDoc(call.topic, call.result, tool.query)),
               !.firstSettled = IF @ = 0 THEN i ELSE @]

SearchResponseOk(i) ==
  /\ tool.pc = "awaiting"
  /\ calls[i].pc = "fetch"
  /\ calls' = [calls EXCEPT ![i] = fetchDocMarkdownOk(calls[i])]
  /\ UNCHANGED <<clock, documentCache, lastStored, ticks, tool>>

SearchResponseNotOk(i, status) ==
  /\ tool.pc = "awaiting"
  /\ calls[i].pc = "fetch"
  /\ LET r == fetchDocMarkdownCatch(calls[i], documentCache, statusErrorMessage(status))
     IN  /\ documentCache' = r.cache
         /\ calls' = [calls EXCEPT ![i] = r.call]
         /\ tool' = searchSettled(i, r.call)
  /\ UNCHANGED <<clock, lastStored, ticks>>

SearchFetchRejects(i, message) ==
  /\ tool.pc = "awaiting"
  /\ calls[i].pc = "fetch"
  /\ LET r == fetchDocMarkdownCatch(calls[i], documentCache, message)
     IN  /\ documentCache' = r.cache
         /\ calls' = [calls EXCEPT ![i] = r.call]
         /\ tool' = searchSettled(i, r.call)
  /\ UNCHANGED <<clock, lastStored, ticks>>

SearchBodyArrives(i, content) ==
  /\ tool.pc = "awaiting"
  /\ calls[i].pc = "text"
  /\ LET r == fetchDocMarkdownStore(calls[i], documentCache, content)
     IN  /\ documentCache' = r.cache
         /\ calls' = [calls EXCEPT ![i] = r.call]
         /\ tool' = searchSettled(i, r.call)
  /\ lastStored' = [lastStored EXCEPT ![calls[i].path] =
                      [content |-> content, now |-> calls[i].now, at |-> clock]]
  /\ UNCHANGED <<clock, ticks>>

SearchBodyRejects(i, message) ==
  /\ tool.pc = "awaiting"
  /\ calls[i].pc = "text"
  /\ LET r == fetchDocMarkdownCatch(calls[i], documentCache, message)
     IN  /\ documentCache' = r.cache
         /\ calls' = [calls EXCEPT ![i] = r.call]
         /\ tool' = searchSettled(i, r.call)
  /\ UNCHANGED <<clock, lastStored, ticks>>

\* Promise.all has resolved: lines 232-288
SearchReturn ==
  /\ tool.pc = "awaiting"
  /\ \A i \in DocIds : tool.values[i] # Pending
  /\ tool' = [tool EXCEPT !.pc = "done", !.reply = searchReply(tool.values, tool.query)]
  /\ UNCHANGED <<clock, documentCache, calls, lastStored, ticks>>

NextSearch ==
  \/ \E query \in SearchQueries : SearchDocumentation(query)
  \/ \E i \in DocIds : SearchResponseOk(i)
  \/ \E i \in DocIds, status \in HttpErrorStatuses : SearchResponseNotOk(i, status)
  \/ \E i \in DocIds, m \in NetworkErrorMessages : SearchFetchRejects(i, m)
  \/ \E i \in DocIds, content \in SearchBodies : SearchBodyArrives(i, content)
  \/ \E i \in DocIds, m \in BodyErrorMessages : SearchBodyRejects(i, m)
  \/ SearchReturn

SpecSearch == InitSearch /\ [][NextSearch]_vars

-----------------------------------------------------------------------------
(* Properties of search-documentation.                                     *)

\* the position of a topic in the registry
registryIndex(t) == CHOOSE i \in 1..Len(registryOrder) : registryOrder[i] = t

\* C5: the search starts the fetches of all the documents before it awaits
\* any, and whatever the order in which they complete, its matches are at most
\* one per topic, in registry order, each the match of that topic's fetched
\* content: the completion order changes neither content nor order.
C5_SearchInRegistryOrder ==
  /\ tool.pc # "idle" => \A i \in DocIds : calls[i].pc # "idle"
  /\ tool.pc = "done" =>
       LET res == tool.reply.results
       IN  /\ \A k, l \in 1..Len(res) :
                k < l => registryIndex(res[k].topic) < registryIndex(res[l].topic)
           /\ \A k \in 1..Len(res) :
                /\ registryIndex(res[k].topic) \in DocIds
                /\ res[k] = searchDoc(res[k].topic,
                                      calls[registryIndex(res[k].topic)].result,
                                      tool.query)

\* a search has returned two or more matches, and the fetch that completed first
\* is the one of the last match
C5_Witness ==
  /\ tool.pc = "done"
  /\ Len(tool.reply.results) >= 2
  /\ tool.firstSettled # 0
  /\ docsToSearch[tool.firstSettled] = tool.reply.results[Len(tool.reply.results)].topic

\* C6: when the lower-cased query is a substring of the lower-cased content
\* fetched for a registered document, the search's result includes that
\* document's topic.
C6_SearchContainment ==
  tool.pc = "done" =>
    \A i \in DocIds :
      includes(toLowerCase(calls[i].result), toLowerCase(tool.query)) =>
        /\ tool.reply.kind = "results"
        /\ \E k \in 1..Len(tool.reply.results) :
             tool.reply.results[k].topic = docsToSearch[i]

\* a document matched the query only because both were lower-cased, and its
\* topic is in the result
C6_Witness ==
  /\ tool.pc = "done"
  /\ \E i \in DocIds :
       /\ ~includes(calls[i].result, tool.query)
       /\ includes(toLowerCase(calls[i].result), toLowerCase(tool.query))
       /\ \E k \in 1..Len(tool.reply.results) :
            tool.reply.results[k].topic = docsToSearch[i]

-----------------------------------------------------------------------------
(* solve-problem.                                                          *)

MaxWords == 2       \* words in a problem text

\* lines 411-454
problemCategories ==
  <<[category |-> <<"A","u","t","h","e","n","t","i","c","a","t","i","o","n">>,
     keywords |-> <<<<"a","p","i"," ","k","e","y">>,
                   <<"a","u","t","h">>,
                   <<"a","u","t","h","e","n","t","i","c","a","t","i","o","n">>,
                   <<"u","n","a","u","t","h","o","r","i","z","e","d">>,
                   <<"4","0","1">>>>,
     topics |-> <<"api-keys", "error-handling">>],
    [category |-> <<"P","a","y","m","e","n","t","s">>,
     keywords |-> <<<<"p","a","y","m","e","n","t">>,
                   <<"s","e","n","d"," ","p","a","y","m","e","n","t">>,
                   <<"t","r","a","n","s","a","c","t","i","o","n">>,
                   <<"f","a","i","l","e","d"," ","p","a","y","m","e","n","t">>>>,
     topics |-> <<"send-payments", "error-handling">>],
    [category |-> <<"P","a","y","e","e","s">>,
     keywords |-> <<<<"p","a","y","e","e">>,
                   <<"r","e","c","i","p","i","e","n","t">>,
                   <<"c","r","e","a","t","e"," ","p","a","y","e","e">>,
                   <<"a","d","d"," ","p","a","y","e","e">>>>,
     topics |-> <<"create-payee", "create-payees">>],
    [category |-> <<"S","e","t","u","p">>,
     keywords |-> <<<<"i","n","s","t","a","l","l">>,
                   <<"s","e","t","u","p">>,
                   <<"c","o","n","f","i","g","u","r","a","t","i","o","n">>,
                   <<"s","d","k">>,
                   <<"i","n","i","t","i","a","l","i","z","e">>>>,
     topics |-> <<"setup-and-installation", "quickstart">>],
    [category |-> <<"E","r","r","o","r"," ","H","a","n","d","l","i","n","g">>,
     keywords |-> <<<<"e","r","r","o","r">>,
                   <<"e","x","c","e","p","t","i","o","n">>,
                   <<"c","r","a","s","h">>,
                   <<"f","a","i","l","e","d">>>>,
     topics |-> <<"error-handling", "api-reference">>]>>

\* the words the problem texts of the model are made of
ProblemWords ==
  { <<"4","0","1">>,
    <<"U","n","a","u","t","h","o","r","i","z","e","d">>,
    <<"p","a","y","m","e","n","t">>,
    <<"P","a","y","e","e">>,
    <<"S","D","K">>,
    <<"f","a","i","l","e","d">>,
    <<"h","e","l","l","o">>,
    <<"c","r","a","s","h">> }

\* the problem texts: up to MaxWords words, separated by spaces
ProblemTexts ==
  {join(ws, <<" ">>) : ws \in UNION {[1..n -> ProblemWords] : n \in 0..MaxWords}}

Sdks == {"nodejs", "python"}

sdkStr ==
     "nodejs" :> <<"n","o","d","e","j","s">>
  @@ "python" :> <<"p","y","t","h","o","n">>

\* cat.keywords.some((keyword) => problemLower.includes(keyword))
categoryMatches(cat, problemLower) ==
  \E k \in 1..Len(cat.keywords) : includes(problemLower, cat.keywords[k])

\* lines 457-459
matchingCategories(problem) ==
  SelectSeq(problemCategories, LAMBDA cat : categoryMatches(cat, toLowerCase(problem)))

RECURSIVE flatMapTopics(_)
\* matchingCategories.flatMap((cat) => cat.topics)
flatMapTopics(cats) ==
  IF Len(cats) = 0 THEN <<>> ELSE cats[1].topics \o flatMapTopics(Tail(cats))

DefaultTopics == <<"error-handling", "api-reference", "quickstart">>

\* lines 461-464
topicsToConsult(problem) ==
  IF Len(matchingCategories(problem)) > 0
    THEN flatMapTopics(matchingCategories(problem))
    ELSE DefaultTopics

RECURSIVE keepLastOccurrences(_)
\* a removal of duplicates that keeps the last occurrence of each element
keepLastOccurrences(xs) ==
  IF Len(xs) = 0 THEN <<>>
  ELSE IF \E k \in 2..Len(xs) : xs[k] = xs[1] THEN keepLastOccurrences(Tail(xs))
  ELSE <<xs[1]>> \o keepLastOccurrences(Tail(xs))

RECURSIVE insertionOrder(_, _)
\* [...new Set(xs)]: a Set keeps each element where it was first inserted
insertionOrder(xs, seen) ==
  IF Len(xs) = 0 THEN seen
  ELSE IF \E k \in 1..Len(seen) : seen[k] = xs[1] THEN insertionOrder(Tail(xs), seen)
  ELSE insertionOrder(Tail(xs), Append(seen, xs[1]))

\* a spread of a Set that keeps last occurrences
spreadSetKeepLast(xs) == keepLastOccurrences(xs)

\* line 466: [...new Set(topicsToConsult)]
spreadSet(xs) == insertionOrder(xs, <<>>)

uniqueTopics(problem) == spreadSet(topicsToConsult(problem))

\* lines 470-474: the sentence that names the matched categories
categoriesText(problem) ==
  IF Len(matchingCategories(problem)) > 0
    THEN <<"T","h","i","s"," ","a","p","p","e","a","r","s"," ","t","o"," ","b","e"," ","a"," ">>
           \o join([k \in 1..Len(matchingCategories(problem)) |->
                      matchingCategories(problem)[k].category], <<"/">>)
           \o <<" ","r","e","l","a","t","e","d"," ","i","s","s","u","e",".","\n","\n">>
    ELSE <<>>

\* lines 476-491: the guidance for the sdk, when one is given
sdkGuidanceText(sdk) ==
  IF sdk = "none" THEN <<>>
  ELSE <<"#","#"," ">> \o toUpperCase(sdkStr[sdk]) \o <<" ","S","D","K"," ","S","p","e","c","i","f","i","c"," ","G","u","i","d","a","n","c","e","\n","\n">>
         \o <<"W","h","e","n"," ","w","o","r","k","i","n","g"," ","w","i","t","h"," ","t","h","e"," ">> \o sdkStr[sdk] \o <<" ","S","D","K",","," ","m","a","k","e"," ","s","u","r","e"," ","t","o",":","\n","\n">>
         \o (IF sdk = "nodejs"
               THEN <<"-"," ","C","h","e","c","k"," ","y","o","u","'","r","e"," ","u","s","i","n","g"," ","t","h","e"," ","l","a","t","e","s","t"," ","v","e","r","s","i","o","n",":"," ",Backtick,"n","p","m"," ","v","i","e","w"," ","@","p","a","y","m","a","n","a","i","/","s","d","k"," ","v","e","r","s","i","o","n",Backtick,"\n","-"," ","U","p","d","a","t","e"," ","i","f"," ","n","e","e","d","e","d",":"," ",Backtick,"n","p","m"," ","i","n","s","t","a","l","l"," ","@","p","a","y","m","a","n","a","i","/","s","d","k","@","l","a","t","e","s","t",Backtick,"\n","-"," ","V","e","r","i","f","y"," ","y","o","u","r"," ","e","n","v","i","r","o","n","m","e","n","t"," ","v","a","r","i","a","b","l","e","s"," ","a","r","e"," ","s","e","t"," ","c","o","r","r","e","c","t","l","y","\n","-"," ","U","s","e"," ","t","r","y","/","c","a","t","c","h"," ","b","l","o","c","k","s"," ","t","o"," ","p","r","o","p","e","r","l","y"," ","h","a","n","d","l","e"," ","A","P","I"," ","e","r","r","o","r","s","\n","\n">>
               ELSE <<"-"," ","C","h","e","c","k"," ","y","o","u","'","r","e"," ","u","s","i","n","g"," ","t","h","e"," ","l","a","t","e","s","t"," ","v","e","r","s","i","o","n",":"," ",Backtick,"p","i","p"," ","s","h","o","w"," ","p","a","y","m","a","n","a","i",Backtick,"\n","-"," ","U","p","d","a","t","e"," ","i","f"," ","n","e","e","d","e","d",":"," ",Backtick,"p","i","p"," ","i","n","s","t","a","l","l"," ","-","-","u","p","g","r","a","d","e"," ","p","a","y","m","a","n","a","i",Backtick,"\n","-"," ","H","a","n","d","l","e"," ","e","x","c","e","p","t","i","o","n","s"," ","p","r","o","p","e","r","l","y"," ","w","i","t","h"," ","t","r","y","/","e","x","c","e","p","t"," ","b","l","o","c","k","s","\n","-"," ","E","n","s","u","r","e"," ","y","o","u","r"," ","P","y","t","h","o","n"," ","v","e","r","s","i","o","n"," ","i","s"," ","c","o","m","p","a","t","i","b","l","e"," ","(","3",".","7","+",")","\n","\n">>)

\* lines 493-497
troubleshootingText ==
  <<"#","#"," ","T","r","o","u","b","l","e","s","h","o","o","t","i","n","g"," ","S","t","e","p","s","\n","\n","1","."," ","*","*","C","h","e","c","k"," ","y","o","u","r"," ","A","P","I"," ","c","r","e","d","e","n","t","i","a","l","s","*","*"," ","-"," ","V","e","r","i","f","y"," ","y","o","u","r"," ","A","P","I"," ","k","e","y"," ","i","s"," ","v","a","l","i","d"," ","a","n","d"," ","c","o","r","r","e","c","t","l","y"," ","f","o","r","m","a","t","t","e","d","\n","2","."," ","*","*","L","o","o","k"," ","f","o","r"," ","s","p","e","c","i","f","i","c"," ","e","r","r","o","r"," ","c","o","d","e","s","*","*"," ","-"," ","E","r","r","o","r"," ","c","o","d","e","s"," ","p","r","o","v","i","d","e"," ","d","e","t","a","i","l","e","d"," ","i","n","f","o","r","m","a","t","i","o","n"," ","a","b","o","u","t"," ","w","h","a","t"," ","w","e","n","t"," ","w","r","o","n","g","\n","3","."," ","*","*","C","h","e","c","k"," ","y","o","u","r"," ","r","e","q","u","e","s","t"," ","f","o","r","m","a","t","*","*"," ","-"," ","E","n","s","u","r","e"," ","a","l","l"," ","r","e","q","u","i","r","e","d"," ","p","a","r","a","m","e","t","e","r","s"," ","a","r","e"," ","i","n","c","l","u","d","e","d"," ","a","n","d"," ","p","r","o","p","e","r","l","y"," ","f","o","r","m","a","t","t","e","d","\n","4","."," ","*","*","R","e","v","i","e","w"," ","r","a","t","e"," ","l","i","m","i","t","s","*","*"," ","-"," ","M","a","k","e"," ","s","u","r","e"," ","y","o","u","'","r","e"," ","n","o","t"," ","e","x","c","e","e","d","i","n","g"," ","A","P","I"," ","r","a","t","e"," ","l","i","m","i","t","s","\n","\n">>

\* lines 499-502
relevantDocumentationText(topics) ==
  <<"#","#"," ","R","e","l","e","v","a","n","t"," ","D","o","c","u","m","e","n","t","a","t","i","o","n","\n","\n">>
    \o join([k \in 1..Len(topics) |->
               <<"-"," ">> \o topicTitle[topics[k]]
                 \o <<":"," ","u","s","e"," ","g","e","t","-","d","o","c","u","m","e","n","t","a","t","i","o","n"," ","w","i","t","h"," ","t","o","p","i","c"," ","\"">>
                 \o topicStr[topics[k]] \o <<"\"","\n">>], <<>>)

\* the text of the reply
solveProblemText(problem, sdk) ==
  <<"#"," ","S","o","l","u","t","i","o","n"," ","f","o","r",":"," ","\"">> \o problem \o <<"\"","\n","\n">>
    \o categoriesText(problem)
    \o sdkGuidanceText(sdk)
    \o troubleshootingText
    \o relevantDocumentationText(uniqueTopics(problem))

InitSolve ==
  /\ clock = 0
  /\ documentCache = [p \in Paths |-> None]
  /\ calls = <<>>
  /\ lastStored = [p \in Paths |-> NoStore]
  /\ ticks = 0
  /\ tool \in [pc : {"called"}, problem : ProblemTexts, sdk : Sdks \cup {"none"},
               categories : {<<>>}, topics : {<<>>}]

\* the handler of solve-problem: it fetches nothing
SolveProblem ==
  /\ tool.pc = "called"
  /\ tool' = [tool EXCEPT
                !.pc = "done",
                !.categories = [k \in 1..Len(matchingCategories(tool.problem)) |->
                                  matchingCategories(tool.problem)[k].category],
                !.topics = uniqueTopics(tool.problem)]
  /\ UNCHANGED <<clock, documentCache, calls, lastStored, ticks>>

NextSolve == SolveProblem

SpecSolve == InitSolve /\ [][NextSolve]_vars

-----------------------------------------------------------------------------
(* Properties of solve-problem.                                            *)

\* the categories one of whose keywords the lower-cased problem text contains
categoriesHit(problem) ==
  {i \in 1..Len(problemCategories) :
     \E k \in 1..Len(problemCategories[i].keywords) :
       includes(toLowerCase(problem), problemCategories[i].keywords[k])}

\* where a topic is first seen when the table is read category by category
firstSeenAt(t, problem) ==
  Min({q[1] * 100 + q[2] :
         q \in {r \in categoriesHit(problem) \X (1..4) :
                  /\ r[2] <= Len(problemCategories[r[1]].topics)
                  /\ problemCategories[r[1]].topics[r[2]] = t}})

\* C7: solve-problem consults exactly the topics of the categories that have a
\* keyword in the lower-cased problem text, each once, in the order in which
\* the category table first shows them; with no category it consults
\* error-handling, api-reference, quickstart; and a text with "401" or
\* "unauthorized" selects Authentication and consults api-keys.
C7_TopicsConsulted ==
  tool.pc = "done" =>
    LET hit == categoriesHit(tool.problem)
        topics == tool.topics
    IN  /\ IF hit = {}
             THEN topics = <<"error-handling", "api-reference", "quickstart">>
             ELSE /\ {topics[k] : k \in 1..Len(topics)} =
                       UNION {{problemCategories[i].topics[j] :
                                 j \in 1..Len(problemCategories[i].topics)} : i \in hit}
                  /\ \A k, l \in 1..Len(topics) :
                       k < l => /\ topics[k] # topics[l]
                                /\ firstSeenAt(topics[k], tool.problem)
                                     < firstSeenAt(topics[l], tool.problem)
        /\ ( \/ includes(toLowerCase(tool.problem), <<"4","0","1">>)
             \/ includes(toLowerCase(tool.problem), <<"u","n","a","u","t","h","o","r","i","z","e","d">>) ) =>
             /\ \E k \in 1..Len(tool.categories) :
                  tool.categories[k] = <<"A","u","t","h","e","n","t","i","c","a","t","i","o","n">>
             /\ \E k \in 1..Len(topics) : topics[k] = "api-keys"

\* a problem text with "401" and a payment keyword: error-handling is listed by
\* both categories and consulted once, where it was first seen
C7_Witness ==
  /\ tool.pc = "done"
  /\ includes(toLowerCase(tool.problem), <<"4","0","1">>)
  /\ tool.topics = <<"api-keys", "error-handling", "send-payments">>

-----------------------------------------------------------------------------
(* get-sdk-help.                                                           *)

NumSdkTopics == 3   \* entries of sdkTopics the model covers

ProximityLimit == 500

ExcerptLines == 20

\* lines 529-536
sdkTopics ==
  <<"setup-and-installation", "create-payees", "send-payments",
    "create-payee", "search-payees", "check-balances">>

sdkTopicsCovered == SubSeq(sdkTopics, 1, NumSdkTopics)

SdkTopicIds == 1..NumSdkTopics

\* lines 541-544
sdkIdentifier(sdk) ==
  IF sdk = "nodejs"
    THEN <<<<"n","o","d","e">>, <<"n","o","d","e","j","s">>, <<"j","a","v","a","s","c","r","i","p","t">>, <<"j","s">>>>
    ELSE <<<<"p","y","t","h","o","n">>, <<"p","y">>>>

\* lines 546-554
isRelevant(content, sdk, feature) ==
  LET cl == toLowerCase(content)
      fl == toLowerCase(feature)
      ids == sdkIdentifier(sdk)
      distance(id) == IF indexOf(cl, id) >= indexOf(cl, fl)
                        THEN indexOf(cl, id) - indexOf(cl, fl)
                        ELSE indexOf(cl, fl) - indexOf(cl, id)
  IN  \E k \in 1..Len(ids) :
        /\ includes(cl, ids[k])
        /\ includes(cl, fl)
        /\ distance(ids[k]) < ProximityLimit

\* lines.findIndex(...): the 0-based index of the first line that holds the
\* feature, or -1
findFeatureIndex(lines, feature) ==
  LET hits == {k \in 1..Len(lines) :
                 includes(toLowerCase(lines[k]), toLowerCase(feature))}
  IN  IF hits = {} THEN -1 ELSE Min(hits) - 1

\* lines 565-568: from the feature line upwards to a line that starts with #,
\* stopping at line 0
findHeadingIndex(lines, featureIndex) ==
  Max({0} \cup {h \in 1..featureIndex : startsWith(lines[h + 1], <<"#">>)})

\* Array.prototype.slice(from, to) for 0 <= from
slice(xs, from, to) ==
  SubSeq(xs, from + 1, IF to > Len(xs) THEN Len(xs) ELSE to)

\* lines 558-586: what one document contributes to the help
helpDoc(topic, content, sdk, feature) ==
  LET lines == splitLines(content)
      featureIndex == findFeatureIndex(lines, feature)
      headingIndex == findHeadingIndex(lines, featureIndex)
      sectionContent == join(slice(lines, headingIndex, featureIndex + ExcerptLines),
                             <<"\n">>)
  IN  IF ~isRelevant(content, sdk, feature) THEN NoMatch
      ELSE IF featureIndex = -1 THEN NoMatch
      ELSE [topic |-> topic,
            heading |-> lines[headingIndex + 1],
            content |-> sectionContent,
            relevance |->
              (IF includes(toLowerCase(content), sdkStr[sdk]) THEN 2 ELSE 1)
                + (IF includes(toLowerCase(sectionContent), toLowerCase(feature))
                     THEN 3 ELSE 0)]

\* a comparator that sorts by ascending relevance
compareAscending(a, b) == a.relevance - b.relevance

\* line 591: (a, b) => (b?.relevance || 0) - (a?.relevance || 0)
compareRelevance(a, b) == b.relevance - a.relevance

RECURSIVE insertSorted(_, _)
\* x goes before the first element the comparator puts after it
insertSorted(sorted, x) ==
  IF Len(sorted) = 0 THEN <<x>>
  ELSE IF compareRelevance(sorted[1], x) > 0 THEN <<x>> \o sorted
  ELSE <<sorted[1]>> \o insertSorted(Tail(sorted), x)

RECURSIVE sortFrom(_, _)
sortFrom(xs, sorted) ==
  IF Len(xs) = 0 THEN sorted ELSE sortFrom(Tail(xs), insertSorted(sorted, xs[1]))

\* Array.prototype.sort with the comparator of line 591; the sort is stable
sortByRelevance(xs) == sortFrom(xs, <<>>)

\* lines 589-602
sdkHelpReply(values) ==
  LET helpResults == sortByRelevance(filterBoolean(values))
  IN  IF Len(helpResults) = 0
        THEN [kind |-> "none", results |-> <<>>]
        ELSE [kind |-> "results", results |-> helpResults]

\* lines 606-611: one result as it is rendered
formatHelp(r) ==
  <<"#","#"," ","F","r","o","m"," ">> \o topicTitle[r.topic] \o <<"\n","\n">>
    \o r.content \o <<"\n","\n">>
    \o <<"*","F","o","r"," ","c","o","m","p","l","e","t","e"," ","d","o","c","u","m","e","n","t","a","t","i","o","n",","," ","u","s","e"," ","g","e","t","-","d","o","c","u","m","e","n","t","a","t","i","o","n"," ","w","i","t","h"," ","t","o","p","i","c"," ","\"">>
    \o topicStr[r.topic] \o <<"\"","*","\n","\n","-","-","-","\n","\n">>

\* the text of the reply
sdkHelpText(rep, sdk, feature) ==
  IF rep.kind = "none"
    THEN <<"N","o"," ","s","p","e","c","i","f","i","c"," ","h","e","l","p"," ","f","o","u","n","d"," ","f","o","r"," ">> \o feature \o <<" ","i","n"," ","t","h","e"," ">> \o sdkStr[sdk]
           \o <<" ","S","D","K","."," ","T","r","y"," ","c","h","e","c","k","i","n","g"," ","t","h","e"," ","f","u","l","l"," ","S","D","K"," ","d","o","c","u","m","e","n","t","a","t","i","o","n"," ","w","i","t","h"," ","g","e","t","-","d","o","c","u","m","e","n","t","a","t","i","o","n"," ","o","r"," ","u","s","i","n","g"," ","m","o","r","e"," ","g","e","n","e","r","i","c"," ","t","e","r","m","s",".">>
    ELSE <<"#"," ">> \o toUpperCase(sdkStr[sdk]) \o <<" ","S","D","K"," ","H","e","l","p",":"," ">> \o feature
           \o <<"\n","\n">>
           \o join([k \in 1..Len(rep.results) |-> formatHelp(rep.results[k])], <<>>)
           \o <<"#","#"," ","A","d","d","i","t","i","o","n","a","l"," ","R","e","s","o","u","r","c","e","s","\n","\n","-"," ","S","e","t","u","p"," ","a","n","d"," ","I","n","s","t","a","l","l","a","t","i","o","n",":"," ","u","s","e"," ","g","e","t","-","d","o","c","u","m","e","n","t","a","t","i","o","n"," ","w","i","t","h"," ","t","o","p","i","c"," ","\"","s","e","t","u","p","-","a","n","d","-","i","n","s","t","a","l","l","a","t","i","o","n","\"","\n","-"," ","E","r","r","o","r"," ","H","a","n","d","l","i","n","g",":"," ","u","s","e"," ","g","e","t","-","d","o","c","u","m","e","n","t","a","t","i","o","n"," ","w","i","t","h"," ","t","o","p","i","c"," ","\"","e","r","r","o","r","-","h","a","n","d","l","i","n","g","\"","\n","-"," ","F","o","r"," ","c","o","d","e"," ","e","x","a","m","p","l","e","s",","," ","t","r","y"," ","t","h","e"," ","g","e","t","-","c","o","d","e","-","e","x","a","m","p","l","e","s"," ","t","o","o","l"," ","w","i","t","h"," ","f","e","a","t","u","r","e","=","\"">>
           \o feature \o <<"\""," ","a","n","d"," ","l","a","n","g","u","a","g","e","=","\"">> \o sdkStr[sdk] \o <<"\"","\n">>

\* a document of n + 3 lines whose first lines hold the sdk name and the feature
manyLines(n) ==
  <<"i","n","t","r","o","\n","#","#"," ","U","s","a","g","e","\n","n","o","d","e","j","s"," ","c","l","i","e","n","t","\n","c","r","e","a","t","e"," ","P","a","y","e","e","s">>
    \o [i \in 1..(2 * n) |-> IF i % 2 = 1 THEN "\n" ELSE "l"]

\* a document in which the sdk identifier and the feature are far apart
farApart ==
  <<"n","o","d","e">> \o <<"\n">> \o [i \in 1..ProximityLimit |-> "x"]
    \o <<"\n","p","a","y","e","e","s">>

\* The bodies the site serves for the sdk topics.
SdkBodies ==
  { <<"#"," ","I","n","s","t","a","l","l","\n","n","o","d","e"," ","o","r"," ","p","y","\n","r","u","n"," ","p","a","y","e","e","s">>,
    manyLines(ExcerptLines + 2),
    <<"p","y"," ","s","d","k","\n","p","y","t","h","o","n"," ","p","a","y","e","e","s">>,
    farApart }

SdkFeatures == { <<"P","a","y","e","e","s">>, <<"u","s","a","g","e">> }

InitSdkHelp ==
  /\ clock = 0
  /\ \E content \in SdkBodies \cup {<<>>} :
       documentCache =
         [p \in Paths |->
            IF p = pathMap[sdkTopics[1]] /\ content # <<>>
              THEN [content |-> content, timestamp |-> 0]
              ELSE None]
  /\ calls = [i \in SdkTopicIds |-> NoCall]
  /\ lastStored = [p \in Paths |->
                     IF documentCache[p] = None THEN NoStore
                     ELSE [content |-> documentCache[p].content, now |-> 0, at |-> 0]]
  /\ ticks = 0
  /\ tool = [pc |-> "idle", sdk |-> "", feature |-> <<>>, values |-> <<>>,
             reply |-> None]

RECURSIVE helpSettleReturned(_, _, _, _, _)
\* the activations that returned from the cache settle first, in array order
helpSettleReturned(values, entered, sdk, feature, i) ==
  IF i > Len(entered) THEN values
  ELSE IF entered[i].pc = "returned"
    THEN helpSettleReturned(
           promiseAllSettle(values, i,
                            helpDoc(entered[i].topic, entered[i].result, sdk, feature)),
           entered, sdk, feature, i + 1)
  ELSE helpSettleReturned(values, entered, sdk, feature, i + 1)

\* A host call of get-sdk-help(sdk, feature): line 538 starts one
\* fetchDocMarkdown per sdk topic.
GetSdkHelp(sdk, feature) ==
  /\ tool.pc = "idle"
  /\ LET entered == [i \in SdkTopicIds |->
                       [fetchDocMarkdownEnter(pathMap[sdkTopicsCovered[i]],
                                              documentCache, clock)
                          EXCEPT !.topic = sdkTopicsCovered[i]]]
     IN  /\ calls' = entered
         /\ tool' = [pc |-> "awaiting", sdk |-> sdk, feature |-> feature,
                     values |-> helpSettleReturned([i \in SdkTopicIds |-> Pending],
                                                   entered, sdk, feature, 1),
                     reply |-> None]
  /\ UNCHANGED <<clock, documentCache, lastStored, ticks>>

\* the continuation of lines 541-586 for topic i, whose fetch has returned
helpSettled(i, call) ==
  [tool EXCEPT !.values = promiseAllSettle(@, i,
                            helpDoc(call.topic, call.result, tool.sdk, tool.feature))]

SdkResponseOk(i) ==
  /\ tool.pc = "awaiting"
  /\ calls[i].pc = "fetch"
  /\ calls' = [calls EXCEPT ![i] = fetchDocMarkdownOk(calls[i])]
  /\ UNCHANGED <<clock, documentCache, lastStored, ticks, tool>>

SdkResponseNotOk(i, status) ==
  /\ tool.pc = "awaiting"
  /\ calls[i].pc = "fetch"
  /\ LET r == fetchDocMarkdownCatch(calls[i], documentCache, statusErrorMessage(status))
     IN  /\ documentCache' = r.cache
         /\ calls' = [calls EXCEPT ![i] = r.call]
         /\ tool' = helpSettled(i, r.call)
  /\ UNCHANGED <<clock, lastStored, ticks>>

SdkFetchRejects(i, message) ==
  /\ tool.pc = "awaiting"
  /\ calls[i].pc = "fetch"
  /\ LET r == fetchDocMarkdownCatch(calls[i], documentCache, message)
     IN  /\ documentCache' = r.cache
         /\ calls' = [calls EXCEPT ![i] = r.call]
         /\ tool' = helpSettled(i, r.call)
  /\ UNCHANGED <<clock, lastStored, ticks>>

SdkBodyArrives(i, content) ==
  /\ tool.pc = "awaiting"
  /\ calls[i].pc = "text"
  /\ LET r == fetchDocMarkdownStore(calls[i], documentCache, content)
     IN  /\ documentCache' = r.cache
         /\ calls' = [calls EXCEPT ![i] = r.call]
         /\ tool' = helpSettled(i, r.call)
  /\ lastStored' = [lastStored EXCEPT ![calls[i].path] =
                      [content |-> content, now |-> calls[i].now, at |-> clock]]
  /\ UNCHANGED <<clock, ticks>>

SdkBodyRejects(i, message) ==
  /\ tool.pc = "awaiting"
  /\ calls[i].pc = "text"
  /\ LET r == fetchDocMarkdownCatch(calls[i], documentCache, message)
     IN  /\ documentCache' = r.cache
         /\ calls' = [calls EXCEPT ![i] = r.call]
         /\ tool' = helpSettled(i, r.call)
  /\ UNCHANGED <<clock, lastStored, ticks>>

\* Promise.all has resolved: lines 589-626
SdkHelpReturn ==
  /\ tool.pc = "awaiting"
  /\ \A i \in SdkTopicIds : tool.values[i] # Pending
  /\ tool' = [tool EXCEPT !.pc = "done", !.reply = sdkHelpReply(tool.values)]
  /\ UNCHANGED <<clock, documentCache, calls, lastStored, ticks>>

NextSdkHelp ==
  \/ \E sdk \in Sdks, feature \in SdkFeatures : GetSdkHelp(sdk, feature)
  \/ \E i \in SdkTopicIds : SdkResponseOk(i)
  \/ \E i \in SdkTopicIds, status \in HttpErrorStatuses : SdkResponseNotOk(i, status)
  \/ \E i \in SdkTopicIds, m \in NetworkErrorMessages : SdkFetchRejects(i, m)
  \/ \E i \in SdkTopicIds, content \in SdkBodies : SdkBodyArrives(i, content)
  \/ \E i \in SdkTopicIds, m \in BodyErrorMessages : SdkBodyRejects(i, m)
  \/ SdkHelpReturn

SpecSdkHelp == InitSdkHelp /\ [][NextSdkHelp]_vars

-----------------------------------------------------------------------------
(* Claims about get-sdk-help.                                              *)

\* the position of a topic in the scan of sdkTopics
sdkScanIndex(t) == CHOOSE i \in 1..Len(sdkTopics) : sdkTopics[i] = t

\* the score of a result, from the document fetched for its topic and the
\* excerpt taken from it
scoreOf(r) ==
  (IF includes(toLowerCase(calls[sdkScanIndex(r.topic)].result), sdkStr[tool.sdk])
     THEN 2 ELSE 1)
    + (IF includes(toLowerCase(r.content), toLowerCase(tool.feature)) THEN 3 ELSE 0)

\* C8: when get-sdk-help has replied, the results are the included topics,
\* each once and carrying the score of the score function; they are in
\* non-increasing order of score, and results of equal score are in the
\* scan order of sdkTopics.
C8_SortedByRelevance ==
  tool.pc = "done" =>
    LET results == tool.reply.results
    IN  /\ Len(results) = Cardinality({i \in SdkTopicIds : tool.values[i] # NoMatch})
        /\ \A i \in SdkTopicIds :
             tool.values[i] # NoMatch =>
               \E k \in 1..Len(results) : results[k] = tool.values[i]
        /\ \A k \in 1..Len(results) : results[k].relevance = scoreOf(results[k])
        /\ \A j, k \in 1..Len(results) :
             j < k =>
               /\ results[j].relevance >= results[k].relevance
               /\ results[j].relevance = results[k].relevance =>
                    sdkScanIndex(results[j].topic) < sdkScanIndex(results[k].topic)

\* a reply in which the sort moved the second topic in front of the first,
\* and the first and third, of equal score, kept their scan order
C8_Witness ==
  /\ tool.pc = "done"
  /\ Len(tool.reply.results) = 3
  /\ tool.reply.results[1].topic = sdkTopics[2]
  /\ tool.reply.results[2].topic = sdkTopics[1]
  /\ tool.reply.results[3].topic = sdkTopics[3]
  /\ tool.reply.results[1].relevance = 5
  /\ tool.reply.results[2].relevance = 4
  /\ tool.reply.results[3].relevance = 4

-----------------------------------------------------------------------------
(* get-code-examples.                                                      *)

MaxExampleTopics == 2   \* entries of topicsToSearch the model covers

ContextLength == 300

\* lines 308-316
potentialTopics(feature) ==
  SelectSeq(docTopics,
            LAMBDA t : \/ includes(toLowerCase(topicStr[t]), toLowerCase(feature))
                       \/ includes(toLowerCase(topicTitle[t]), toLowerCase(feature)))

\* lines 318-319
topicsToSearch(feature) ==
  IF Len(potentialTopics(feature)) > 0 THEN potentialTopics(feature) ELSE docTopics

topicsToSearchCovered(feature) ==
  SubSeq(topicsToSearch(feature), 1,
         Min({MaxExampleTopics, Len(topicsToSearch(feature))}))

Fence == <<Backtick, Backtick, Backtick>>

\* lines 325-328: the alternatives of the pattern, in the order the pattern
\* lists them
regexTags(language) ==
  IF language = "nodejs"
    THEN <<<<"j","a","v","a","s","c","r","i","p","t">>, <<"t","y","p","e","s","c","r","i","p","t">>, <<"j","s">>, <<"n","o","d","e","j","s">>, <<"n","o","d","e">>>>
    ELSE <<<<"p","y","t","h","o","n">>, <<"p","y">>>>

\* The pattern at the 0-based offset p: a fence, the first alternative that
\* follows it (nothing is required after the alternative), and the shortest
\* run of any characters up to the next fence.  An alternative that is a
\* prefix of an earlier one reaches no fence the earlier one does not, so the
\* first alternative decides.
regexMatchAt(content, language, p) ==
  LET tags == regexTags(language)
      alts == {k \in 1..Len(tags) : matchesAt(content, tags[k], p + 3)}
      from == p + 3 + Len(tags[Min(alts)])
      close == indexOfFrom(content, Fence, from)
  IN  IF ~matchesAt(content, Fence, p) \/ alts = {} THEN None
      ELSE IF close = -1 THEN None
      ELSE [group |-> substring(content, from, close), end |-> close + 3]

RECURSIVE matchAllFrom(_, _, _)
\* content.matchAll(codeBlockRegex): the matches from left to right, each
\* search resuming where the last match ended; the capture group of each.
\* A match can only start at a fence.
matchAllFrom(content, language, p) ==
  LET q == indexOfFrom(content, Fence, p)
      m == regexMatchAt(content, language, q)
  IN  IF q = -1 THEN <<>>
      ELSE IF m = None THEN matchAllFrom(content, language, q + 1)
      ELSE <<m.group>> \o matchAllFrom(content, language, m.end)

matchAll(content, language) == matchAllFrom(content, language, 0)

\* String.prototype.trim
trim(s) ==
  LET kept == {i \in 1..Len(s) : ~isWhitespace(s[i])}
  IN  IF kept = {} THEN <<>> ELSE SubSeq(s, Min(kept), Max(kept))

\* lines 334-343: the block holds the feature, or the text before the first
\* occurrence of the block does
blockIsRelevant(content, code, feature) ==
  \/ includes(toLowerCase(code), toLowerCase(feature))
  \/ includes(toLowerCase(substring(content,
                                    Max({0, indexOf(content, code) - ContextLength}),
                                    indexOf(content, code))),
              toLowerCase(feature))

\* lines 321-353: what one document contributes to the examples
examplesDoc(topic, content, language, feature) ==
  LET matches == matchAll(content, language)
      trimmed == [k \in 1..Len(matches) |-> trim(matches[k])]
      relevantBlocks == SelectSeq(trimmed,
                                  LAMBDA code : blockIsRelevant(content, code, feature))
  IN  IF Len(relevantBlocks) = 0 THEN NoMatch
      ELSE [topic |-> topic, title |-> topicTitle[topic], examples |-> relevantBlocks]

\* lines 355-368
examplesReply(values) ==
  LET allExamples == filterBoolean(values)
  IN  IF Len(allExamples) = 0
        THEN [kind |-> "none", examples |-> <<>>]
        ELSE [kind |-> "examples", examples |-> allExamples]

\* lines 377-382
formatExample(code, index, language) ==
  <<"#","#","#"," ","E","x","a","m","p","l","e"," ">> \o numberToString(index) \o <<"\n","\n">>
    \o Fence \o (IF language = "nodejs" THEN <<"j","a","v","a","s","c","r","i","p","t">> ELSE <<"p","y","t","h","o","n">>)
    \o <<"\n">> \o code \o <<"\n">> \o Fence \o <<"\n","\n">>

\* lines 372-385
formatTopicExamples(e, language) ==
  <<"#","#"," ","F","r","o","m"," ">> \o e.title \o <<"\n","\n">>
    \o join([k \in 1..Len(e.examples) |-> formatExample(e.examples[k], k, language)],
            <<>>)
    \o <<"*","F","o","r"," ","m","o","r","e"," ","c","o","n","t","e","x","t",","," ","c","h","e","c","k"," ","t","h","e"," ","f","u","l","l"," ","d","o","c","u","m","e","n","t","a","t","i","o","n",":"," ","u","s","e"," ","g","e","t","-","d","o","c","u","m","e","n","t","a","t","i","o","n"," ","w","i","t","h"," ","t","o","p","i","c"," ","\"">> \o topicStr[e.topic] \o <<"\"",".","*","\n","\n","-","-","-","\n","\n">>

\* the text of the reply
examplesReplyText(rep, language, feature) ==
  IF rep.kind = "none"
    THEN <<"N","o"," ">> \o sdkStr[language] \o <<" ","c","o","d","e"," ","e","x","a","m","p","l","e","s"," ","f","o","u","n","d"," ","f","o","r"," ","\"">> \o feature \o <<"\"","."," ","T","r","y"," ","s","e","a","r","c","h","i","n","g"," ","f","o","r"," ","a"," ","d","i","f","f","e","r","e","n","t"," ","f","e","a","t","u","r","e"," ","o","r"," ","c","h","e","c","k"," ","t","h","e"," ","f","u","l","l"," ","d","o","c","u","m","e","n","t","a","t","i","o","n"," ","u","s","i","n","g"," ","g","e","t","-","d","o","c","u","m","e","n","t","a","t","i","o","n",".">>
    ELSE <<"#"," ">> \o toUpperCase(sdkStr[language]) \o <<" ","C","o","d","e"," ","E","x","a","m","p","l","e","s"," ","f","o","r"," ","\"">> \o feature
           \o <<"\"","\n","\n">>
           \o join([k \in 1..Len(rep.examples) |->
                      formatTopicExamples(rep.examples[k], language)], <<>>)

\* A page as its author wrote it: prose and fenced code blocks, each block
\* with the language tag of its opening fence.
prose(text) == [kind |-> "text", text |-> text, tag |-> <<>>]

block(tag, code) == [kind |-> "block", text |-> code, tag |-> tag]

render(parts) ==
  join([k \in 1..Len(parts) |->
          IF parts[k].kind = "text"
            THEN parts[k].text \o <<"\n">>
            ELSE Fence \o parts[k].tag \o <<"\n">> \o parts[k].text
                   \o <<"\n">> \o Fence \o <<"\n">>],
       <<>>)

\* The pages the site serves to get-code-examples.
ExamplePages ==
  { << prose(<<"S","e","n","d"," ","a"," ","p","a","y","m","e","n","t">>),
       block(<<"p","y","t","h","o","n">>, <<"c","l","i","e","n","t",".","s","e","n","d","(","p","a","y","e","e",")">>),
       block(<<"j","a","v","a","s","c","r","i","p","t">>, <<"p","a","y","m","a","n",".","s","e","n","d","(","p","a","y","e","e",")",";">>) >>,
    << prose(<<"T","h","e"," ","p","a","y","e","e"," ","a","s"," ","i","t"," ","i","s"," ","r","e","t","u","r","n","e","d">>),
       block(<<"j","s","o","n">>, <<"{","\"","p","a","y","e","e","\"",":"," ","1","}">>) >>,
    << prose(<<"I","n","s","t","a","l","l">>),
       block(<<"b","a","s","h">>, <<"n","p","m"," ","i"," ","p","a","y","m","a","n">>),
       block(<<"j","s">>, <<"n","e","w"," ","P","a","y","m","a","n","(","k","e","y",")">>) >> }

ExampleBodies == {render(parts) : parts \in ExamplePages}

ExampleFeatures == { <<"p","a","y","e","e">>, <<"S","e","n","d">>, <<"p","a","y","m","a","n">> }

InitExamples ==
  /\ clock = 0
  /\ \E content \in ExampleBodies \cup {<<>>} :
       documentCache =
         [p \in Paths |->
            IF p = pathMap["create-payees"] /\ content # <<>>
              THEN [content |-> content, timestamp |-> 0]
              ELSE None]
  /\ calls = <<>>
  /\ lastStored = [p \in Paths |->
                     IF documentCache[p] = None THEN NoStore
                     ELSE [content |-> documentCache[p].content, now |-> 0, at |-> 0]]
  /\ ticks = 0
  /\ tool = [pc |-> "idle", language |-> "", feature |-> <<>>, values |-> <<>>,
             reply |-> None]

RECURSIVE examplesSettleReturned(_, _, _, _, _)
\* the activations that returned from the cache settle first, in array order
examplesSettleReturned(values, entered, language, feature, i) ==
  IF i > Len(entered) THEN values
  ELSE IF entered[i].pc = "returned"
    THEN examplesSettleReturned(
           promiseAllSettle(values, i,
                            examplesDoc(entered[i].topic, entered[i].result,
                                        language, feature)),
           entered, language, feature, i + 1)
  ELSE examplesSettleReturned(values, entered, language, feature, i + 1)

\* A host call of get-code-examples(feature, language): line 321 starts one
\* fetchDocMarkdown per topic to search.
GetCodeExamples(feature, language) ==
  /\ tool.pc = "idle"
  /\ LET topics == topicsToSearchCovered(feature)
         entered == [i \in 1..Len(topics) |->
                       [fetchDocMarkdownEnter(pathMap[topics[i]], documentCache, clock)
                          EXCEPT !.topic = topics[i]]]
     IN  /\ calls' = entered
         /\ tool' = [pc |-> "awaiting", language |-> language, feature |-> feature,
                     values |-> examplesSettleReturned([i \in 1..Len(topics) |-> Pending],
                                                       entered, language, feature, 1),
                     reply |-> None]
  /\ UNCHANGED <<clock, documentCache, lastStored, ticks>>

\* the continuation of lines 325-353 for topic i, whose fetch has returned
examplesSettled(i, call) ==
  [tool EXCEPT !.values = promiseAllSettle(@, i,
                            examplesDoc(call.topic, call.result,
                                        tool.language, tool.feature))]

ExamplesResponseOk(i) ==
  /\ tool.pc = "awaiting"
  /\ i \in DOMAIN calls
  /\ calls[i].pc = "fetch"
  /\ calls' = [calls EXCEPT ![i] = fetchDocMarkdownOk(calls[i])]
  /\ UNCHANGED <<clock, documentCache, lastStored, ticks, tool>>

ExamplesResponseNotOk(i, status) ==
  /\ tool.pc = "awaiting"
  /\ i \in DOMAIN calls
  /\ calls[i].pc = "fetch"
  /\ LET r == fetchDocMarkdownCatch(calls[i], documentCache, statusErrorMessage(status))
     IN  /\ documentCache' = r.cache
         /\ calls' = [calls EXCEPT ![i] = r.call]
         /\ tool' = examplesSettled(i, r.call)
  /\ UNCHANGED <<clock, lastStored, ticks>>

ExamplesFetchRejects(i, message) ==
  /\ tool.pc = "awaiting"
  /\ i \in DOMAIN calls
  /\ calls[i].pc = "fetch"
  /\ LET r == fetchDocMarkdownCatch(calls[i], documentCache, message)
     IN  /\ documentCache' = r.cache
         /\ calls' = [calls EXCEPT ![i] = r.call]
         /\ tool' = examplesSettled(i, r.call)
  /\ UNCHANGED <<clock, lastStored, ticks>>

ExamplesBodyArrives(i, content) ==
  /\ tool.pc = "awaiting"
  /\ i \in DOMAIN calls
  /\ calls[i].pc = "text"
  /\ LET r == fetchDocMarkdownStore(calls[i], documentCache, content)
     IN  /\ documentCache' = r.cache
         /\ calls' = [calls EXCEPT ![i] = r.call]
         /\ tool' = examplesSettled(i, r.call)
  /\ lastStored' = [lastStored EXCEPT ![calls[i].path] =
                      [content |-> content, now |-> calls[i].now, at |-> clock]]
  /\ UNCHANGED <<clock, ticks>>

ExamplesBodyRejects(i, message) ==
  /\ tool.pc = "awaiting"
  /\ i \in DOMAIN calls
  /\ calls[i].pc = "text"
  /\ LET r == fetchDocMarkdownCatch(calls[i], documentCache, message)
     IN  /\ documentCache' = r.cache
         /\ calls' = [calls EXCEPT ![i] = r.call]
         /\ tool' = examplesSettled(i, r.call)
  /\ UNCHANGED <<clock, lastStored, ticks>>

\* Promise.all has resolved: lines 355-395
ExamplesReturn ==
  /\ tool.pc = "awaiting"
  /\ \A i \in DOMAIN calls : tool.values[i] # Pending
  /\ tool' = [tool EXCEPT !.pc = "done", !.reply = examplesReply(tool.values)]
  /\ UNCHANGED <<clock, documentCache, calls, lastStored, ticks>>

NextExamples ==
  \/ \E feature \in ExampleFeatures, language \in Sdks : GetCodeExamples(feature, language)
  \/ \E i \in 1..MaxExampleTopics : ExamplesResponseOk(i)
  \/ \E i \in 1..MaxExampleTopics, status \in HttpErrorStatuses :
       ExamplesResponseNotOk(i, status)
  \/ \E i \in 1..MaxExampleTopics, m \in NetworkErrorMessages : ExamplesFetchRejects(i, m)
  \/ \E i \in 1..MaxExampleTopics, content \in ExampleBodies :
       ExamplesBodyArrives(i, content)
  \/ \E i \in 1..MaxExampleTopics, m \in BodyErrorMessages : ExamplesBodyRejects(i, m)
  \/ ExamplesReturn

SpecExamples == InitExamples /\ [][NextExamples]_vars

-----------------------------------------------------------------------------
(* Claims about get-code-examples.                                         *)

\* the tags the handler is meant to accept for a language
acceptedTags(language) == {regexTags(language)[k] : k \in 1..Len(regexTags(language))}

\* C9: when get-code-examples has replied, every example it returns for a
\* page is the code of a fenced block of that page whose language tag is one
\* of the tags accepted for the requested language.
C9_OnlyAcceptedTags ==
  tool.pc = "done" =>
    \A i \in DOMAIN calls :
      tool.values[i] # NoMatch =>
        \A parts \in ExamplePages :
          calls[i].result = render(parts) =>
            \A k \in 1..Len(tool.values[i].examples) :
              \E b \in 1..Len(parts) :
                /\ parts[b].kind = "block"
                /\ parts[b].tag \in acceptedTags(tool.language)
                /\ tool.values[i].examples[k] = trim(parts[b].text)

-----------------------------------------------------------------------------
(* Claims about the excerpt of get-sdk-help.                               *)

\* the lines from the 0-based line h through the 0-based line t, t included,
\* clipped to the end of the document
linesThrough(lines, h, t) ==
  SubSeq(lines, h + 1, IF t + 1 > Len(lines) THEN Len(lines) ELSE t + 1)

\* C11: for every topic get-sdk-help includes, with f the index of the first
\* line that holds the feature and h the nearest line at or above f that
\* starts with a heading marker (line 0 if there is none), the excerpt is
\* the lines from h through f + 20, line f + 20 included, clipped to the end
\* of the document.
C11_ExcerptThroughTwentyPast ==
  \A i \in DOMAIN tool.values :
    tool.values[i] \notin {Pending, NoMatch} =>
      LET lines == splitLines(calls[i].result)
          f == findFeatureIndex(lines, tool.feature)
          h == findHeadingIndex(lines, f)
      IN  tool.values[i].content = join(linesThrough(lines, h, f + 20), <<"\n">>)
=============================================================================
